---- MODULE Spec2Model ----
(***************************************************************************)
(* Model of the multiplayer chess server, backend/main.go.                 *)
(*                                                                         *)
(* One task (goroutine) per websocket connection runs handleConnections: a *)
(* read loop that dispatches "create", "join" and "move", and a deferred   *)
(* cleanup (removePlayer, then ws.Close).  The tasks share the map `games` *)
(* guarded by gamesMutex, and each Game carries its own mutex.  A step of  *)
(* the model is one critical section or one write to a connection, so the  *)
(* interleavings the locks allow are the interleavings of the model.  The  *)
(* reads broadcastGameState makes without gamesMutex (the map lookup, the  *)
(* status, the fen and the participant list) are steps of their own.       *)
(* A transport failure shows at the read or write that meets it: a write   *)
(* either goes out or fails, and a connection that failed stays failed.    *)
(*                                                                         *)
(* The rules engine (github.com/notnil/chess) is an external collaborator; *)
(* it is modelled through the five operations the server uses: NewGame,    *)
(* MoveStr, Position().Turn(), Outcome()/Method() and Position().String(). *)
(***************************************************************************)
EXTENDS Integers, Sequences, FiniteSets, TLC

\* ------------------------------------------------------------------ bounds
NumConns == 3        \* connections (one handler task each)
MaxGames == 2        \* sessions ever created (ksuid ids are never reused)
MaxReqs  == 3        \* inbound messages decoded over all connections

Conns   == 1..NumConns
GameIDs == 1..MaxGames
NoConn  == 0

\* ------------------------------------------------------------ rules engine
White   == "white"
Black   == "black"
NoColor == "-"

NoOutcome == "*"
WhiteWon  == "1-0"
BlackWon  == "0-1"
Draw      == "1/2-1/2"

NoMethod             == "NoMethod"
Checkmate            == "Checkmate"
Stalemate            == "Stalemate"
FivefoldRepetition   == "FivefoldRepetition"
InsufficientMaterial == "InsufficientMaterial"

\* A move string stands for the class of position the engine reaches with it;
\* "e2e5" is the string the engine rejects in every position.
Moves == {"quiet", "mate", "stale", "fivefold", "insufficient", "e2e5"}

\* chess.NewGame(): the starting position, White to move, no outcome.
NewGame == [ply |-> 0, outcome |-> NoOutcome, method |-> NoMethod]

\* Position().Turn(): White moves on even plies.
Turn(g) == IF g.ply % 2 = 0 THEN White ELSE Black

\* Position().ValidMoves(): a checkmated or stalemated side has no move; the
\* engine looks at the position only, so a game drawn by rule still has moves.
ValidMoves(g) ==
    IF g.method \in {Checkmate, Stalemate} THEN {} ELSE Moves \ {"e2e5"}

\* evaluatePositionStatus after a move m: mate and stalemate come from the new
\* position; an outcome already set is kept; otherwise the automatic draws.
Evaluate(g, m) ==
    IF m = "mate"
        THEN [outcome |-> IF Turn(g) = White THEN WhiteWon ELSE BlackWon,
              method  |-> Checkmate]
    ELSE IF m = "stale" THEN [outcome |-> Draw, method |-> Stalemate]
    ELSE IF g.outcome # NoOutcome THEN [outcome |-> g.outcome, method |-> g.method]
    ELSE IF m = "fivefold" THEN [outcome |-> Draw, method |-> FivefoldRepetition]
    ELSE IF m = "insufficient" THEN [outcome |-> Draw, method |-> InsufficientMaterial]
    ELSE [outcome |-> NoOutcome, method |-> NoMethod]

\* Game.MoveStr: err is TRUE and the game untouched when the move is not valid.
MoveStr(g, m) ==
    IF m \in ValidMoves(g)
        THEN [err |-> FALSE,
              game |-> [ply |-> g.ply + 1,
                        outcome |-> Evaluate(g, m).outcome,
                        method  |-> Evaluate(g, m).method]]
        ELSE [err |-> TRUE, game |-> g]

\* Position().String(): the FEN, of which the model keeps the board (named by
\* the ply that produced it) and the active colour.
Fen(g) == <<g.ply, Turn(g)>>

\* ------------------------------------------------------------------ helpers
\* randomColor(): either colour
randomColor == {White, Black}

\* toggleColor without the toggle
toggleColorSame(color) == color

toggleColor(color) == IF color = White THEN Black ELSE White

\* getPlayerColor without the comparison of connections
getPlayerColorOfFirst(ws, game) ==
    IF Len(game.Players) = 0 THEN NoColor ELSE game.Players[1].Color

RECURSIVE getPlayerColorFrom(_, _, _)
getPlayerColorFrom(ws, players, i) ==
    IF i > Len(players) THEN NoColor
    ELSE IF players[i].Conn = ws THEN players[i].Color
    ELSE getPlayerColorFrom(ws, players, i + 1)

\* the colour of the first record of ws in game.Players, NoColor without one
getPlayerColor(ws, game) == getPlayerColorFrom(ws, game.Players, 1)

\* status computed by broadcastGameState from Outcome() and Method()
StatusOf(g) ==
    IF g.outcome # NoOutcome
        THEN IF g.method = Checkmate THEN "checkmate"
             ELSE IF g.method = Stalemate THEN "stalemate"
             ELSE IF g.method = InsufficientMaterial THEN "draw"
             ELSE "ongoing"
        ELSE "ongoing"

\* the loop of removePlayer over one game's Players: the first record of ws
\* is cut out, then the loop breaks
RECURSIVE RemoveFirst(_, _)
RemoveFirst(players, ws) ==
    IF players = <<>> THEN <<>>
    ELSE IF Head(players).Conn = ws THEN Tail(players)
    ELSE <<Head(players)>> \o RemoveFirst(Tail(players), ws)

\* the index of the first record of ws in players, 0 when there is none
FirstIndex(players, ws) ==
    IF \E i \in 1..Len(players) : players[i].Conn = ws
        THEN CHOOSE i \in 1..Len(players) :
                /\ players[i].Conn = ws
                /\ \A j \in 1..(i - 1) : players[j].Conn # ws
        ELSE 0

\* the full check written with > for >=
IsFullOffByOne(players) == Len(players) > 2

\* len(game.Players) >= 2, the full check of "join"
IsFull(players) == Len(players) >= 2

\* the emptiness test written with <= 1 for == 0
IsEmptyOffByOne(players) == Len(players) <= 1

\* len(game.Players) == 0, the test of removePlayer before delete(games, gameID)
IsEmpty(players) == Len(players) = 0

\* ----------------------------------------------------------------- messages
NoFen == <<0, NoColor>>
CreatedMsg(id, color) ==
    [kind |-> "created", gameID |-> id, color |-> color, text |-> "", fen |-> NoFen]
JoinedMsg(id, color) ==
    [kind |-> "joined", gameID |-> id, color |-> color, text |-> "", fen |-> NoFen]
ErrorMsg(text) ==
    [kind |-> "error", gameID |-> 0, color |-> NoColor, text |-> text, fen |-> NoFen]
StateMsg(status, fen) ==
    [kind |-> "state", gameID |-> 0, color |-> NoColor, text |-> status, fen |-> fen]

NoMsg == [kind |-> "", gameID |-> 0, color |-> NoColor, text |-> "", fen |-> NoFen]
NoWrite == [to |-> NoConn, msg |-> NoMsg, ok |-> FALSE]

\* -------------------------------------------------------------------- state
VARIABLES
    games,       \* the map games: id -> [Game, Players, mu]
    gamesMutex,  \* holder of gamesMutex, NoConn when free
    nextID,      \* number of ids handed out by ksuid.New()
    pc,          \* where each connection's task stands
    loc,         \* the locals of each connection's task
    broken,      \* connections whose transport has failed: reads and writes fail
    sent,        \* the last WriteJSON: [to, msg, ok]
    nreq,        \* inbound messages decoded so far in the run
    removed,     \* log of removePlayer: <<id, connection, index>> of each record cut
    seen         \* per connection and session: the ply of the last state message
                 \* of that session delivered to the connection, 0 before any

vars == <<games, gamesMutex, nextID, pc, loc, broken, sent, nreq, removed, seen>>

Idle == [gid |-> 0, mv |-> "", color |-> NoColor, chk |-> NewGame,
         caller |-> "", status |-> "", fen |-> NoFen, snap |-> <<>>, i |-> 0,
         todo |-> {}]

Init ==
    /\ games = <<>>
    /\ gamesMutex = NoConn
    /\ nextID = 0
    /\ pc = [c \in Conns |-> "new"]
    /\ loc = [c \in Conns |-> Idle]
    /\ broken = [c \in Conns |-> FALSE]
    /\ sent = NoWrite
    /\ nreq = 0
    /\ removed = {}
    /\ seen = [c \in Conns |-> [g \in GameIDs |-> 0]]

\* a write to connection c fails once its transport has failed or its
\* handler has closed it
Dead(c) == broken[c] \/ pc[c] = "closed"

Goto(c, label) == pc' = [pc EXCEPT ![c] = label]

\* Conn.WriteJSON(m) on connection c: ok says whether the frame went out; a
\* write on a dead connection fails, and a write that fails leaves it dead
WriteJSON(c, m, ok) ==
    /\ ok => ~Dead(c)
    /\ sent' = [to |-> c, msg |-> m, ok |-> ok]
    /\ broken' = [broken EXCEPT ![c] = @ \/ ~ok]

\* the peer of connection k reads a state message of session g that went out
Deliver(k, g, fen, ok) ==
    seen' = IF ok THEN [seen EXCEPT ![k][g] = fen[1]] ELSE seen

\* a direct response of c's own handler: a failed write returns from the
\* handler (the deferred cleanup runs), a delivered one goes on at `next`
Respond(c, m, next) ==
    \E ok \in BOOLEAN :
        /\ WriteJSON(c, m, ok)
        /\ Goto(c, IF ok THEN next ELSE "defer")

\* ------------------------------------------------------ the peer / the wire
\* the task of c blocks in ws.ReadJSON.  A connection on which nothing has
\* happened yet stands at "new"; connections are numbered in the order of
\* their first event, so c leaves "new" only after every lower one has
AtRead(c) ==
    \/ pc[c] = "read"
    \/ pc[c] = "new" /\ \A d \in Conns : d < c => pc[d] # "new"

\* ws.ReadJSON returns a transport error (the peer closed, the connection
\* failed, or an earlier write to it failed): break out of the loop
ReadError(c) ==
    /\ AtRead(c)
    /\ broken' = [broken EXCEPT ![c] = TRUE]
    /\ Goto(c, "defer")
    /\ UNCHANGED <<games, gamesMutex, nextID, loc, sent, nreq, removed, seen>>

\* a request is read off connection c: ReadJSON returned a decoded message
Receive(c) ==
    /\ AtRead(c)
    /\ ~broken[c]
    /\ nreq < MaxReqs
    /\ nreq' = nreq + 1

\* a frame that is not a JSON object of strings: ReadJSON returns the decoding
\* error, and every error of ReadJSON breaks out of the loop
RecvMalformed(c) ==
    /\ Receive(c)
    /\ Goto(c, "defer")
    /\ UNCHANGED <<games, gamesMutex, nextID, loc, broken, sent, removed, seen>>

\* default: an unknown action is logged and the loop goes on
RecvUnknown(c) ==
    /\ Receive(c)
    /\ Goto(c, "read")
    /\ UNCHANGED <<games, gamesMutex, nextID, loc, broken, sent, removed, seen>>

\* ------------------------------------------------------------------- create
\* {"action":"create"}: a fresh id, a random colour, then
\* gamesMutex.Lock(); games[gameID] = game; gamesMutex.Unlock()
CreateInsert(c) ==
    /\ Receive(c)
    /\ nextID < MaxGames
    /\ gamesMutex = NoConn
    /\ nextID' = nextID + 1
    /\ \E playerColor \in randomColor :
          /\ games' = [g \in DOMAIN games \cup {nextID'} |->
                         IF g = nextID'
                            THEN [Game |-> NewGame,
                                  Players |-> <<[Conn |-> c, Color |-> playerColor]>>,
                                  mu |-> NoConn]
                            ELSE games[g]]
          /\ loc' = [loc EXCEPT ![c] = [Idle EXCEPT !.gid = nextID', !.color = playerColor]]
    /\ Goto(c, "create_resp")
    /\ UNCHANGED <<gamesMutex, broken, sent, removed, seen>>

CreateRespond(c) ==
    /\ pc[c] = "create_resp"
    /\ Respond(c, CreatedMsg(loc[c].gid, loc[c].color), "read")
    /\ loc' = [loc EXCEPT ![c] = Idle]
    /\ UNCHANGED <<games, gamesMutex, nextID, nreq, removed, seen>>

\* --------------------------------------------------------------------- join
\* {"action":"join","gameID":g} and the critical section of "join": the
\* lookup, the full check, the append
JoinLocked(c) ==
    /\ Receive(c)
    /\ gamesMutex = NoConn
    /\ \E g \in GameIDs :
       IF g \notin DOMAIN games
          THEN /\ Goto(c, "join_notfound")
               /\ loc' = [loc EXCEPT ![c].gid = g]
               /\ UNCHANGED games
       ELSE IF IsFull(games[g].Players)
          THEN /\ Goto(c, "join_full")
               /\ loc' = [loc EXCEPT ![c].gid = g]
               /\ UNCHANGED games
       ELSE LET playerColor == toggleColor(games[g].Players[1].Color) IN
               /\ games' = [games EXCEPT ![g].Players =
                               Append(@, [Conn |-> c, Color |-> playerColor])]
               /\ loc' = [loc EXCEPT ![c].gid = g, ![c].color = playerColor]
               /\ Goto(c, "join_ok")
    /\ UNCHANGED <<gamesMutex, nextID, broken, sent, removed, seen>>

\* "game full" followed by return where the code has continue
JoinFullReturn(c) ==
    /\ pc[c] = "join_full"
    /\ \E ok \in BOOLEAN :
          /\ WriteJSON(c, ErrorMsg("game full"), ok)
          /\ Goto(c, "defer")
    /\ loc' = [loc EXCEPT ![c] = Idle]
    /\ UNCHANGED <<games, gamesMutex, nextID, nreq, removed, seen>>

JoinFullRespond(c) ==
    /\ pc[c] = "join_full"
    /\ Respond(c, ErrorMsg("game full"), "read")
    /\ loc' = [loc EXCEPT ![c] = Idle]
    /\ UNCHANGED <<games, gamesMutex, nextID, nreq, removed, seen>>

JoinNotFoundRespond(c) ==
    /\ pc[c] = "join_notfound"
    /\ Respond(c, ErrorMsg("game not found"), "read")
    /\ loc' = [loc EXCEPT ![c] = Idle]
    /\ UNCHANGED <<games, gamesMutex, nextID, nreq, removed, seen>>

\* the "joined" response without the broadcast that follows it
JoinOkNoBroadcast(c) ==
    /\ pc[c] = "join_ok"
    /\ Respond(c, JoinedMsg(loc[c].gid, loc[c].color), "read")
    /\ loc' = [loc EXCEPT ![c] = Idle]
    /\ UNCHANGED <<games, gamesMutex, nextID, nreq, removed, seen>>

\* the "joined" response, then broadcastGameState(gameID) with no lock held
JoinOkRespond(c) ==
    /\ pc[c] = "join_ok"
    /\ Respond(c, JoinedMsg(loc[c].gid, loc[c].color), "bc_lookup")
    /\ loc' = [loc EXCEPT ![c].caller = "join"]
    /\ UNCHANGED <<games, gamesMutex, nextID, nreq, removed, seen>>

\* --------------------------------------------------------------------- move
\* the turn check made under gamesMutex and the lock released right after it
MoveLockedReleased(c) ==
    /\ Receive(c)
    /\ gamesMutex = NoConn
    /\ \E g \in GameIDs :
       IF g \notin DOMAIN games
          THEN /\ Goto(c, "move_notfound")
               /\ loc' = [loc EXCEPT ![c].gid = g]
       ELSE IF Turn(games[g].Game) # getPlayerColor(c, games[g])
          THEN /\ Goto(c, "move_notturn")
               /\ loc' = [loc EXCEPT ![c].gid = g]
       ELSE /\ \E m \in Moves :
                  loc' = [loc EXCEPT ![c].gid = g, ![c].mv = m, ![c].chk = games[g].Game]
            /\ Goto(c, "move_apply")
    /\ UNCHANGED <<games, gamesMutex, nextID, broken, sent, removed, seen>>

\* {"action":"move","gameID":g,"move":m}, gamesMutex.Lock(), the lookup and
\* the turn check; the lock stays held on every path on which the game exists
MoveLocked(c) ==
    /\ Receive(c)
    /\ gamesMutex = NoConn
    /\ \E g \in GameIDs :
       IF g \notin DOMAIN games
          THEN /\ Goto(c, "move_notfound")
               /\ loc' = [loc EXCEPT ![c].gid = g]
               /\ UNCHANGED gamesMutex
       ELSE IF Turn(games[g].Game) # getPlayerColor(c, games[g])
          THEN /\ gamesMutex' = c
               /\ Goto(c, "move_notturn")
               /\ loc' = [loc EXCEPT ![c].gid = g]
       ELSE /\ gamesMutex' = c
            /\ \E m \in Moves :
                  loc' = [loc EXCEPT ![c].gid = g, ![c].mv = m, ![c].chk = games[g].Game]
            /\ Goto(c, "move_apply")
    /\ UNCHANGED <<games, nextID, broken, sent, removed, seen>>

\* the move applied a second time after the call that validated it
MoveApplyTwice(c) ==
    /\ pc[c] = "move_apply"
    /\ LET g == loc[c].gid
           r == MoveStr(games[g].Game, loc[c].mv) IN
       IF r.err
          THEN /\ Goto(c, "move_invalid")
               /\ UNCHANGED <<games, loc>>
          ELSE /\ games' = [games EXCEPT ![g].Game = MoveStr(r.game, loc[c].mv).game]
               /\ loc' = [loc EXCEPT ![c].caller = "move"]
               /\ Goto(c, "bc_lookup")
    /\ UNCHANGED <<gamesMutex, nextID, broken, sent, nreq, removed, seen>>

\* err := game.Game.MoveStr(moveStr), still under gamesMutex
MoveApply(c) ==
    /\ pc[c] = "move_apply"
    /\ LET g == loc[c].gid
           r == MoveStr(games[g].Game, loc[c].mv) IN
       IF r.err
          THEN /\ Goto(c, "move_invalid")
               /\ UNCHANGED <<games, loc>>
          ELSE /\ games' = [games EXCEPT ![g].Game = r.game]
               /\ loc' = [loc EXCEPT ![c].caller = "move"]
               /\ Goto(c, "bc_lookup")
    /\ UNCHANGED <<gamesMutex, nextID, broken, sent, nreq, removed, seen>>

MoveNotFoundRespond(c) ==
    /\ pc[c] = "move_notfound"
    /\ Respond(c, ErrorMsg("game not found"), "read")
    /\ loc' = [loc EXCEPT ![c] = Idle]
    /\ UNCHANGED <<games, gamesMutex, nextID, nreq, removed, seen>>

\* an error response written under gamesMutex: the unlock follows a delivered
\* write only, a failed write returns with the lock held
RespondLocked(c, m) ==
    /\ Respond(c, m, "read")
    /\ gamesMutex' = IF sent'.ok THEN NoConn ELSE gamesMutex
    /\ loc' = [loc EXCEPT ![c] = Idle]

MoveNotTurnRespond(c) ==
    /\ pc[c] = "move_notturn"
    /\ RespondLocked(c, ErrorMsg("not your turn"))
    /\ UNCHANGED <<games, nextID, nreq, removed, seen>>

MoveInvalidRespond(c) ==
    /\ pc[c] = "move_invalid"
    /\ RespondLocked(c, ErrorMsg("invalid move"))
    /\ UNCHANGED <<games, nextID, nreq, removed, seen>>

\* -------------------------------------------------------- broadcastGameState
\* game := games[gameID], read without taking gamesMutex; a missing id yields
\* nil, and game.Lock() on nil panics: the handler unwinds into its defer
BroadcastLookup(c) ==
    /\ pc[c] = "bc_lookup"
    /\ IF loc[c].gid \in DOMAIN games
          THEN Goto(c, "bc_lock")
          ELSE Goto(c, "defer")
    /\ UNCHANGED <<games, gamesMutex, nextID, loc, broken, sent, nreq, removed, seen>>

\* the status read without waiting for the session lock
BroadcastLockNoWait(c) ==
    /\ pc[c] = "bc_lock"
    /\ games' = [games EXCEPT ![loc[c].gid].mu = c]
    /\ loc' = [loc EXCEPT ![c].status = StatusOf(games[loc[c].gid].Game)]
    /\ Goto(c, "bc_state")
    /\ UNCHANGED <<gamesMutex, nextID, broken, sent, nreq, removed, seen>>

\* game.Lock(), then status from Outcome() and Method()
BroadcastLock(c) ==
    /\ pc[c] = "bc_lock"
    /\ games[loc[c].gid].mu = NoConn
    /\ games' = [games EXCEPT ![loc[c].gid].mu = c]
    /\ loc' = [loc EXCEPT ![c].status = StatusOf(games[loc[c].gid].Game)]
    /\ Goto(c, "bc_state")
    /\ UNCHANGED <<gamesMutex, nextID, broken, sent, nreq, removed, seen>>

\* state := {status, fen}; the range expression game.Players is evaluated once
BroadcastState(c) ==
    /\ pc[c] = "bc_state"
    /\ loc' = [loc EXCEPT ![c].fen = Fen(games[loc[c].gid].Game),
                          ![c].snap = games[loc[c].gid].Players,
                          ![c].i = 1]
    /\ Goto(c, "bc_write")
    /\ UNCHANGED <<games, gamesMutex, nextID, broken, sent, nreq, removed, seen>>

\* the loop left at the first write that fails
BroadcastWriteAbort(c) ==
    /\ pc[c] = "bc_write"
    /\ loc[c].i <= Len(loc[c].snap)
    /\ \E ok \in BOOLEAN :
          /\ WriteJSON(loc[c].snap[loc[c].i].Conn, StateMsg(loc[c].status, loc[c].fen), ok)
          /\ Deliver(loc[c].snap[loc[c].i].Conn, loc[c].gid, loc[c].fen, ok)
          /\ loc' = [loc EXCEPT ![c].i = IF ok THEN @ + 1 ELSE Len(loc[c].snap) + 1]
    /\ UNCHANGED <<games, gamesMutex, nextID, pc, nreq, removed>>

\* one iteration of the loop: player.Conn.WriteJSON(state); an error is logged
BroadcastWrite(c) ==
    /\ pc[c] = "bc_write"
    /\ loc[c].i <= Len(loc[c].snap)
    /\ \E ok \in BOOLEAN :
          /\ WriteJSON(loc[c].snap[loc[c].i].Conn, StateMsg(loc[c].status, loc[c].fen), ok)
          /\ Deliver(loc[c].snap[loc[c].i].Conn, loc[c].gid, loc[c].fen, ok)
    /\ loc' = [loc EXCEPT ![c].i = @ + 1]
    /\ UNCHANGED <<games, gamesMutex, nextID, pc, nreq, removed>>

\* the return of broadcastGameState without the deferred game.Unlock()
BroadcastReturnLocked(c) ==
    /\ pc[c] = "bc_write"
    /\ loc[c].i > Len(loc[c].snap)
    /\ gamesMutex' = IF loc[c].caller = "move" THEN NoConn ELSE gamesMutex
    /\ loc' = [loc EXCEPT ![c] = Idle]
    /\ Goto(c, "read")
    /\ UNCHANGED <<games, nextID, broken, sent, nreq, removed, seen>>

\* the deferred game.Unlock(); after a move the caller unlocks gamesMutex next
BroadcastReturn(c) ==
    /\ pc[c] = "bc_write"
    /\ loc[c].i > Len(loc[c].snap)
    /\ games' = [games EXCEPT ![loc[c].gid].mu = NoConn]
    /\ gamesMutex' = IF loc[c].caller = "move" THEN NoConn ELSE gamesMutex
    /\ loc' = [loc EXCEPT ![c] = Idle]
    /\ Goto(c, "read")
    /\ UNCHANGED <<nextID, broken, sent, nreq, removed, seen>>

\* -------------------------------------------------- deferred: removePlayer(ws)
\* gamesMutex.Lock(); a sync.Mutex is not reentrant
RemoveLock(c) ==
    /\ pc[c] = "defer"
    /\ gamesMutex = NoConn
    /\ gamesMutex' = c
    /\ loc' = [loc EXCEPT ![c] = [Idle EXCEPT !.todo = DOMAIN games]]
    /\ Goto(c, "remove")
    /\ UNCHANGED <<games, nextID, broken, sent, nreq, removed, seen>>

\* the iteration that cuts the first record of the game, whosever it is
RemoveVisitAny(c) ==
    /\ pc[c] = "remove"
    /\ \E g \in loc[c].todo :
          /\ games[g].mu = NoConn
          /\ LET players == Tail(games[g].Players) IN
             games' = IF IsEmpty(players)
                         THEN [h \in DOMAIN games \ {g} |-> games[h]]
                         ELSE [games EXCEPT ![g].Players = players]
          /\ removed' = removed \cup {<<g, c, 1>>}
          /\ loc' = [loc EXCEPT ![c].todo = @ \ {g}]
    /\ UNCHANGED <<gamesMutex, nextID, pc, broken, sent, nreq, seen>>

\* one iteration of `for gameID, game := range games` (any order): game.Lock(),
\* cut the first record of ws, delete the game if it is empty, game.Unlock()
RemoveVisit(c) ==
    /\ pc[c] = "remove"
    /\ \E g \in loc[c].todo :
          /\ games[g].mu = NoConn
          /\ LET players == RemoveFirst(games[g].Players, c) IN
             games' = IF IsEmpty(players)
                         THEN [h \in DOMAIN games \ {g} |-> games[h]]
                         ELSE [games EXCEPT ![g].Players = players]
          /\ removed' = IF FirstIndex(games[g].Players, c) = 0
                           THEN removed
                           ELSE removed \cup {<<g, c, FirstIndex(games[g].Players, c)>>}
          /\ loc' = [loc EXCEPT ![c].todo = @ \ {g}]
    /\ UNCHANGED <<gamesMutex, nextID, pc, broken, sent, nreq, seen>>

\* the deferred gamesMutex.Unlock() of removePlayer
RemoveReturn(c) ==
    /\ pc[c] = "remove"
    /\ loc[c].todo = {}
    /\ gamesMutex' = NoConn
    /\ loc' = [loc EXCEPT ![c] = Idle]
    /\ Goto(c, "close")
    /\ UNCHANGED <<games, nextID, broken, sent, nreq, removed, seen>>

\* ws.Close()
Close(c) ==
    /\ pc[c] = "close"
    /\ Goto(c, "closed")
    /\ UNCHANGED <<games, gamesMutex, nextID, loc, broken, sent, nreq, removed, seen>>

\* ---------------------------------------------------------------------- spec
Next ==
    \E c \in Conns :
        \/ ReadError(c)
        \/ RecvMalformed(c)
        \/ RecvUnknown(c)
        \/ CreateInsert(c)
        \/ CreateRespond(c)
        \/ JoinLocked(c)
        \/ JoinFullRespond(c)
        \/ JoinNotFoundRespond(c)
        \/ JoinOkRespond(c)
        \/ MoveLocked(c)
        \/ MoveApply(c)
        \/ MoveNotFoundRespond(c)
        \/ MoveNotTurnRespond(c)
        \/ MoveInvalidRespond(c)
        \/ BroadcastLookup(c)
        \/ BroadcastLock(c)
        \/ BroadcastState(c)
        \/ BroadcastWrite(c)
        \/ BroadcastReturn(c)
        \/ RemoveLock(c)
        \/ RemoveVisit(c)
        \/ RemoveReturn(c)
        \/ Close(c)

Spec == Init /\ [][Next]_vars

\* A session in play: connection 1 has created session 1 with either colour,
\* connection `joiner` (the creator itself or connection 2) has joined it, and
\* the broadcast of the join has returned; both handlers are back in ReadJSON
\* and every other connection has come and gone.  nreq counts from here.
InitJoined ==
    /\ \E playerColor \in randomColor, joiner \in {1, 2} :
          /\ games = [g \in {1} |->
                        [Game |-> NewGame,
                         Players |-> <<[Conn |-> 1, Color |-> playerColor],
                                       [Conn |-> joiner, Color |-> toggleColor(playerColor)]>>,
                         mu |-> NoConn]]
          /\ pc = [c \in Conns |-> IF c \in {1, joiner} THEN "read" ELSE "closed"]
          /\ sent = [to |-> joiner, msg |-> StateMsg(StatusOf(NewGame), Fen(NewGame)),
                     ok |-> TRUE]
    /\ gamesMutex = NoConn
    /\ nextID = 1
    /\ loc = [c \in Conns |-> Idle]
    /\ broken = [c \in Conns |-> FALSE]
    /\ nreq = 0
    /\ removed = {}
    /\ seen = [c \in Conns |-> [g \in GameIDs |-> 0]]

SpecJoined == InitJoined /\ [][Next]_vars

\* ------------------------------------------------------------------ claims
Registered == DOMAIN games

Range(seq) == {seq[i] : i \in 1..Len(seq)}

\* the connections that hold a participant record of the session
Holders(players) == {players[i].Conn : i \in 1..Len(players)}

\* the sessions registered before and after a step
Kept == DOMAIN games \cap DOMAIN games'

\* the task of c takes the step that ends its critical section of "join"
JoinStep(c) ==
    /\ pc[c] \in {"new", "read"}
    /\ pc'[c] \in {"join_notfound", "join_full", "join_ok"}

\* the task of c takes the step that makes the turn check of "move"
MoveStep(c) ==
    /\ pc[c] \in {"new", "read"}
    /\ pc'[c] \in {"move_notfound", "move_notturn", "move_apply"}

\* c holds a record of the session whose colour is the side to move
HasTurn(c, game) ==
    \E r \in Range(game.Players) : r.Conn = c /\ r.Color = Turn(game.Game)

\* the write of the step is this message to connection c
Wrote(c, m) == sent'.to = c /\ sent'.msg = m

\* the places where a game error waits to be answered, and its text
ErrorPcs == {"join_notfound", "join_full", "move_notfound", "move_notturn", "move_invalid"}

ErrorText(label) ==
    CASE label = "join_notfound" -> "game not found"
      [] label = "move_notfound" -> "game not found"
      [] label = "join_full"     -> "game full"
      [] label = "move_notturn"  -> "not your turn"
      [] label = "move_invalid"  -> "invalid move"

\* one iteration of the broadcast loop of c: the state is written to the next
\* record of the snapshot, whatever the write returns, and nothing else moves
BroadcastStep(c) ==
    /\ loc[c].i \in 1..Len(loc[c].snap)
    /\ Wrote(loc[c].snap[loc[c].i].Conn, StateMsg(loc[c].status, loc[c].fen))
    /\ loc' = [loc EXCEPT ![c].i = loc[c].i + 1]
    /\ pc' = pc
    /\ games' = games

\* C1: every registered session has at most two participants, in every
\* reachable state of every interleaving of create, join, move and cleanup;
\* a join that succeeded holds a record of the session, so two joins cannot
\* both succeed on one free slot.
C1_AtMostTwo ==
    /\ \A g \in Registered : Len(games[g].Players) <= 2
    /\ \A c \in Conns :
          pc[c] = "join_ok" =>
             /\ loc[c].gid \in Registered
             /\ [Conn |-> c, Color |-> loc[c].color] \in Range(games[loc[c].gid].Players)

\* two joins raced for the one free slot: one holds it, the other is being
\* told that the game is full, and neither has been answered yet
C1_Witness ==
    \E c, d \in Conns :
        /\ c # d
        /\ pc[c] = "join_ok"
        /\ pc[d] = "join_full"
        /\ loc[c].gid = loc[d].gid
        /\ loc[c].gid \in Registered
        /\ Len(games[loc[c].gid].Players) = 2

\* C2: the position of a session changes only in a step of a connection that
\* holds a record of the side to move; a move request of a connection that
\* holds no such record is routed to the answer "not your turn", that answer
\* is written to the requester, and the position stays as it was.
C2_OnlyTheSideToMove ==
    [][/\ \A g \in Kept :
             games'[g].Game # games[g].Game =>
                \E c \in Conns :
                   /\ pc[c] = "move_apply"
                   /\ pc'[c] # "move_apply"
                   /\ loc[c].gid = g
                   /\ HasTurn(c, games[g])
       /\ \A c \in Conns :
             /\ (MoveStep(c) /\ loc'[c].gid \in Registered
                    /\ ~HasTurn(c, games[loc'[c].gid]))
                   => pc'[c] = "move_notturn" /\ games' = games
             /\ (pc[c] = "move_notturn" /\ pc'[c] # "move_notturn")
                   => /\ Wrote(c, ErrorMsg("not your turn"))
                      /\ games' = games]_vars

\* a connection that is no participant of the session, and the participant
\* whose colour is not to move, are both being told "not your turn"
C2_Witness ==
    \E c, d \in Conns :
        /\ pc[c] = "move_notturn"
        /\ loc[c].gid \in Registered
        /\ c \in Holders(games[loc[c].gid].Players)
        /\ ~broken[d]
        /\ sent = [to |-> d, msg |-> ErrorMsg("not your turn"), ok |-> TRUE]
        /\ \A g \in Registered : d \notin Holders(games[g].Players)

\* C3: a step that changes the position of a session is the move of a task
\* that made its turn check on the position being replaced, and the new
\* position is one application of the rules engine to it, with the side to
\* move flipped; a move the engine rejects leaves every position as it was.
C3_OneApplication ==
    [][/\ \A g \in Kept :
             games'[g].Game # games[g].Game =>
                \E c \in Conns :
                   /\ pc[c] = "move_apply"
                   /\ loc[c].gid = g
                   /\ loc[c].chk = games[g].Game
                   /\ ~MoveStr(loc[c].chk, loc[c].mv).err
                   /\ games'[g].Game = MoveStr(loc[c].chk, loc[c].mv).game
                   /\ games'[g].Game.ply = loc[c].chk.ply + 1
                   /\ Turn(games'[g].Game) = toggleColor(Turn(loc[c].chk))
                   /\ pc'[c] = "bc_lookup"
       /\ \A c \in Conns :
             pc[c] = "move_apply" =>
                /\ loc[c].gid \in Registered
                /\ loc[c].chk = games[loc[c].gid].Game
                /\ (pc'[c] = "move_invalid" =>
                       /\ MoveStr(loc[c].chk, loc[c].mv).err
                       /\ games' = games)
                /\ (MoveStr(loc[c].chk, loc[c].mv).err /\ pc'[c] # "move_apply"
                       => pc'[c] = "move_invalid")]_vars

\* a move the engine rejects has been answered, and then a move has been
\* accepted on the session
C3_Witness ==
    \E c \in Conns :
        /\ pc[c] = "bc_lookup"
        /\ loc[c].caller = "move"
        /\ games[loc[c].gid].Game.ply = 1
        /\ sent = [to |-> c, msg |-> ErrorMsg("invalid move"), ok |-> TRUE]

\* C4: the two participants of a session have complementary colours, and a
\* record keeps its colour: every record of a session after a step was there
\* before the step or is the record the step appended.
C4_Complementary ==
    \A g \in Registered :
        /\ \A r \in Range(games[g].Players) : r.Color \in {White, Black}
        /\ Len(games[g].Players) = 2 =>
              games[g].Players[1].Color # games[g].Players[2].Color

C4_ColourKept ==
    [][\A g \in Kept :
          \A r \in Range(games'[g].Players) :
             \/ r \in Range(games[g].Players)
             \/ /\ JoinStep(r.Conn)
                /\ games'[g].Players = Append(games[g].Players, r)]_vars

C4_Colours == []C4_Complementary /\ C4_ColourKept

\* the first participant of a session has left, and a new connection has
\* joined the one that remained
C4_Witness ==
    \E g \in Registered :
        /\ Len(games[g].Players) = 2
        /\ games[g].Players[1].Conn # games[g].Players[2].Conn
        /\ \E r \in removed :
              r[1] = g /\ r[3] = 1 /\ r[2] \notin Holders(games[g].Players)

\* C5: a game error changes nothing and is told to the requester alone: the
\* step that detects it leaves the map, the participants and the positions as
\* they were and writes nothing; the step that answers it writes the error to
\* the requester and changes no session; no broadcast follows; after the
\* answer is delivered the requester is back in its read loop without the
\* registry lock.
C5_GameErrors ==
    [][\A c \in Conns :
          /\ (pc[c] \notin ErrorPcs /\ pc'[c] \in ErrorPcs) =>
                /\ games' = games
                /\ sent' = sent
                /\ (pc'[c] \in {"join_notfound", "move_notfound"}
                       <=> loc'[c].gid \notin Registered)
                /\ (pc'[c] = "join_full" => Len(games[loc'[c].gid].Players) = 2)
                /\ (pc'[c] = "move_notturn" => ~HasTurn(c, games[loc'[c].gid])
                       \/ Cardinality({r \in Range(games[loc'[c].gid].Players) :
                                           r.Conn = c}) = 2)
          /\ (pc[c] \in ErrorPcs /\ pc'[c] # pc[c]) =>
                /\ Wrote(c, ErrorMsg(ErrorText(pc[c])))
                /\ games' = games
                /\ pc'[c] = IF sent'.ok THEN "read" ELSE "defer"
                /\ sent'.ok => gamesMutex' # c
          /\ (pc[c] \in ErrorPcs /\ pc'[c] = pc[c]) =>
                (sent' # sent => sent'.to # c \/ sent'.msg.kind # "error")]_vars

\* a join on a full session has been answered "game full" and the requester
\* reads on
C5_Witness ==
    \E c \in Conns :
        /\ pc[c] = "read"
        /\ sent = [to |-> c, msg |-> ErrorMsg("game full"), ok |-> TRUE]
        /\ \E g \in Registered :
              Len(games[g].Players) = 2 /\ c \notin Holders(games[g].Players)

C7_Populated == \A g \in Registered : Len(games[g].Players) >= 1

C7_RemovedWhenEmpty ==
    [][\A g \in DOMAIN games :
          g \notin DOMAIN games' =>
             \E c \in Conns :
                /\ pc[c] = "remove"
                /\ g \in loc[c].todo
                /\ games[g].Players = <<games[g].Players[1]>>
                /\ games[g].Players[1].Conn = c]_vars

C7_WhileParticipants == []C7_Populated /\ C7_RemovedWhenEmpty

\* a session has been deleted while another one is still registered
C7_Witness ==
    \E g \in 1..nextID :
        /\ g \notin Registered
        /\ \E r \in removed : r[1] = g
        /\ Registered # {}

\* C8: once the cleanup of a connection has returned, no registered session
\* holds a record of that connection.
C8_NoRecordAfterCleanup ==
    \A c \in Conns :
        pc[c] \in {"close", "closed"} =>
           \A g \in Registered : c \notin Holders(games[g].Players)

\* C9: a write of the broadcast loop that fails is one iteration like any
\* other: the loop goes on to the next record with the same state, it returns
\* only after the last record, and no session changes.
C9_FailedWriteGoesOn ==
    [][\A c \in Conns :
          pc[c] = "bc_write" =>
             /\ (sent' # sent /\ sent'.msg.kind = "state" /\ loc'[c] # loc[c])
                   => BroadcastStep(c)
             /\ (loc'[c] # loc[c] /\ pc'[c] = "bc_write" /\ ~sent'.ok) =>
                   /\ BroadcastStep(c)
                   /\ games' = games
                   /\ loc'[c].snap = loc[c].snap
                   /\ loc'[c].status = loc[c].status
                   /\ loc'[c].fen = loc[c].fen
             /\ pc'[c] # "bc_write" => loc[c].i > Len(loc[c].snap)]_vars

\* the write to the first participant failed and the same state went out to
\* the second
C9_Witness ==
    \E c \in Conns :
        /\ pc[c] = "bc_write"
        /\ Len(loc[c].snap) = 2
        /\ loc[c].i = 3
        /\ loc[c].snap[1].Conn # loc[c].snap[2].Conn
        /\ broken[loc[c].snap[1].Conn]
        /\ pc[loc[c].snap[1].Conn] = "read"
        /\ sent = [to |-> loc[c].snap[2].Conn,
                   msg |-> StateMsg(loc[c].status, loc[c].fen), ok |-> TRUE]
        /\ games[loc[c].gid].Players = loc[c].snap

\* C10: the status a broadcast computes is "ongoing" exactly when the engine
\* reports no outcome for the position, "checkmate" and "stalemate" for those
\* two, and "draw" for every other outcome.
C10_StatusIsOutcome ==
    [][\A c \in Conns :
          (pc[c] = "bc_lock" /\ pc'[c] = "bc_state") =>
             LET g == games[loc[c].gid].Game IN
             /\ loc'[c].status = "ongoing" <=> g.outcome = NoOutcome
             /\ g.outcome # NoOutcome =>
                   loc'[c].status = IF g.method = Checkmate THEN "checkmate"
                                    ELSE IF g.method = Stalemate THEN "stalemate"
                                    ELSE "draw"]_vars

\* C11: once the position of a session has an outcome (checkmate, stalemate
\* or a draw), no step changes that position again: a move request on the
\* session is not applied.
C11_FinishedStaysPut ==
    [][\A g \in Kept :
          games[g].Game.outcome # NoOutcome => games'[g].Game = games[g].Game]_vars

\* the phase of a session as derived from its participants and its outcome
Phase(game) ==
    IF game.Game.outcome # NoOutcome THEN "Finished"
    ELSE IF Len(game.Players) = 2 THEN "InProgress"
    ELSE "WaitingForOpponent"

\* Before(p, q): phase p comes strictly before phase q
Before(p, q) ==
    \/ p = "WaitingForOpponent" /\ q \in {"InProgress", "Finished"}
    \/ p = "InProgress" /\ q = "Finished"

\* C12: the phase of a registered session only moves forward along
\* WaitingForOpponent -> InProgress -> Finished: no step of create, join, move
\* or cleanup takes a session to a phase that comes before the one it is in.
C12_PhaseForward ==
    [][\A g \in Kept : ~Before(Phase(games'[g]), Phase(games[g]))]_vars

\* C13: an inbound message that cannot be decoded does not end the
\* connection: the step that reads a message off a connection never takes its
\* handler out of the read loop into the cleanup, and changes no session.
C13_MalformedGoesOn ==
    [][\A c \in Conns :
          (AtRead(c) /\ nreq' = nreq + 1 /\ pc'[c] # pc[c]) =>
             /\ pc'[c] # "defer"
             /\ (pc'[c] = "read" => games' = games)]_vars

\* the places of a handler from which the registry lock it holds is released
UnlockingPcs ==
    {"move_notturn", "move_apply", "move_invalid",
     "bc_lookup", "bc_lock", "bc_state", "bc_write", "remove"}

\* C14: a handler whose read loop has ended starts its cleanup and the
\* cleanup completes before the connection is closed: the handler stands
\* before removePlayer without the registry lock, which removePlayer takes,
\* and a connection is closed only by a handler whose cleanup has returned.
C14_CleanupCompletes ==
    /\ \A c \in Conns : pc[c] = "defer" => gamesMutex # c
    /\ \A c \in Conns : pc[c] \in {"close", "closed"} => loc[c].todo = {}

\* C15: a transport error on one connection leaves the others served: the
\* registry lock, which every create, join and move of every connection
\* takes, is free or held by a handler that is on its way to release it.
C15_OthersAreServed ==
    gamesMutex # NoConn => pc[gamesMutex] \in UnlockingPcs

\* C16: each request has one frame delivered to its requester: the joiner
\* has its "joined" response, so the broadcast that follows a join delivers
\* no further frame to the joiner, and the next frame a client reads after
\* "joined" is the answer to its next request.
C16_OneFramePerRequest ==
    [][\A c \in Conns :
          (/\ pc[c] = "bc_write"
           /\ loc[c].caller = "join"
           /\ loc'[c].i = loc[c].i + 1
           /\ loc[c].snap[loc[c].i].Conn = c) => ~sent'.ok]_vars

\* C17: a move request of a connection that holds a record of the side to
\* move passes the turn check, also when the connection holds both records
\* of the session.
C17_HolderOfTurnMoves ==
    [][\A c \in Conns :
          (MoveStep(c) /\ loc'[c].gid \in Registered
              /\ HasTurn(c, games[loc'[c].gid])) => pc'[c] = "move_apply"]_vars

\* the places of a broadcast before it has read status, fen and participants
BroadcastPending == {"bc_lookup", "bc_lock", "bc_state"}

\* C18: a broadcast carries the position its trigger left: from the call of
\* broadcastGameState to its read of the fen the position of the session
\* does not change, so status and fen are those of that one position.
C18_BroadcastsItsTrigger ==
    [][\A c \in Conns :
          (pc[c] \in BroadcastPending /\ loc[c].gid \in Kept) =>
             games'[loc[c].gid].Game = games[loc[c].gid].Game]_vars

\* the task of c is inside case "move" of a session that exists: between its
\* turn check and the end of its error response or of its broadcast
InMove(c) ==
    \/ pc[c] \in {"move_notturn", "move_apply", "move_invalid"}
    \/ loc[c].caller = "move" /\ pc[c] \in {"bc_lookup", "bc_lock", "bc_state", "bc_write"}

\* a task inside a move holds the registry lock, so it is the only one, and
\* the position it is about to update is the one its turn check saw
C19_OneAtATime ==
    \A c \in Conns :
        /\ InMove(c) => gamesMutex = c /\ loc[c].gid \in Registered
        /\ pc[c] = "move_apply" =>
              /\ loc[c].chk = games[loc[c].gid].Game
              /\ Turn(games[loc[c].gid].Game) = getPlayerColor(c, games[loc[c].gid])

\* a position is updated by the one task inside a move, which holds the
\* registry lock before and after the step, and by one ply
C19_UpdateInsideMove ==
    [][\A g \in Kept :
          games'[g].Game # games[g].Game =>
             \E c \in Conns :
                /\ pc[c] = "move_apply" /\ loc[c].gid = g
                /\ gamesMutex = c /\ gamesMutex' = c
                /\ games'[g].Game.ply = games[g].Game.ply + 1
                /\ Turn(games'[g].Game) # Turn(games[g].Game)
                /\ \A d \in Conns \ {c} : ~InMove(d)]_vars

\* C19: moves on one session are serialized: the turn check and the position
\* update of a move are one critical section with respect to every other
\* move, so no position is updated from a stale turn check and no two moves
\* are accepted for the same turn.
C19_MovesSerialized == []C19_OneAtATime /\ C19_UpdateInsideMove

\* both participants of a session asked to move while White was to move:
\* the request of Black was refused, the request of White is accepted
C19_Witness ==
    \E c, d \in Conns :
        /\ c # d
        /\ pc[c] = "bc_lookup"
        /\ loc[c].caller = "move"
        /\ games[loc[c].gid].Game.ply = 1
        /\ {c, d} = Holders(games[loc[c].gid].Players)
        /\ pc[d] = "read"
        /\ sent = [to |-> d, msg |-> ErrorMsg("not your turn"), ok |-> TRUE]

\* C20: the participant list and the position of a session are not written
\* while another task holds the lock of the session: no step changes them
\* while a broadcast, which reads them under that lock, holds it.
C20_WritesUnderSessionLock ==
    [][\A g \in Kept :
          (games'[g].Players # games[g].Players \/ games'[g].Game # games[g].Game)
             => games[g].mu = NoConn]_vars

\* the places of a handler at which its next step is the engine call on a
\* position, or a write of a response or of a broadcast to a connection
WorkingPcs ==
    {"move_apply", "move_notturn", "move_invalid", "create_resp",
     "join_notfound", "join_full", "join_ok", "move_notfound", "bc_write"}

\* C21: the registry lock is held for the operations on the session map
\* only: no task holds it at the point where it updates a position or writes
\* a response or a broadcast message to a connection.
C21_RegistryLockIsShort ==
    \A c \in Conns : gamesMutex = c => pc[c] \notin WorkingPcs

\* C22: a position changes only in a session that has two participants.
C22_MovesNeedTwo ==
    [][\A g \in Kept :
          games'[g].Game # games[g].Game => Len(games[g].Players) = 2]_vars

\* C23: every access to the session map is made under the registry lock: the
\* task that takes the lookup step of broadcastGameState holds it, as do the
\* tasks that insert into or delete from the map.
C23_MapUnderRegistryLock ==
    [][\A c \in Conns :
          (pc[c] = "bc_lookup" /\ pc'[c] # "bc_lookup") => gamesMutex = c]_vars

\* the places of a handler at which its next step writes a direct response
\* to its own connection
DirectPcs ==
    {"create_resp", "join_notfound", "join_full", "join_ok",
     "move_notfound", "move_notturn", "move_invalid"}

\* the tasks whose next step is a WriteJSON on connection k
Writers(k) ==
    {c \in Conns :
        \/ c = k /\ pc[c] \in DirectPcs
        \/ /\ pc[c] = "bc_write"
           /\ loc[c].i <= Len(loc[c].snap)
           /\ loc[c].snap[loc[c].i].Conn = k}

\* C24: at most one task at a time is writing to a given connection.
C24_OneWriter ==
    \A k \in Conns : Cardinality(Writers(k)) <= 1

\* the places of a task inside broadcastGameState
BroadcastPcs == {"bc_lookup", "bc_lock", "bc_state", "bc_write"}

\* a task inside broadcastGameState works on a registered session: after a
\* join the session holds the record of the caller, which only the caller's
\* own cleanup cuts; after a move the caller holds the registry lock
C25_SessionStays ==
    \A c \in Conns :
        pc[c] \in BroadcastPcs =>
           /\ loc[c].gid \in Registered
           /\ loc[c].caller = "join" => c \in Holders(games[loc[c].gid].Players)
           /\ loc[c].caller = "move" => gamesMutex = c

\* the lookup of broadcastGameState goes on to game.Lock(), never to the
\* dereference of a missing session
C25_LookupFinds ==
    [][\A c \in Conns :
          (pc[c] = "bc_lookup" /\ pc'[c] # "bc_lookup") => pc'[c] = "bc_lock"]_vars

\* C25: whenever broadcastGameState looks up its session id the session is
\* in the registry, in every interleaving of the calling join or move with
\* the cleanup of other connections.
C25_BroadcastFindsSession == []C25_SessionStays /\ C25_LookupFinds

\* the other participant has left and been cut from the session between the
\* append of a join and the lookup of its broadcast
C25_Witness ==
    \E c \in Conns :
        /\ pc[c] = "bc_lookup"
        /\ loc[c].caller = "join"
        /\ Holders(games[loc[c].gid].Players) = {c}
        /\ Len(games[loc[c].gid].Players) = 1
        /\ \E r \in removed : r[1] = loc[c].gid /\ r[2] # c

\* the sessions whose lock task c holds
SessionLocks(c) == {g \in Registered : games[g].mu = c}

\* task c cannot take its next step before task d releases a lock: c stands
\* at gamesMutex.Lock() (a request or removePlayer) or at game.Lock() (a
\* broadcast, or removePlayer on a session it has yet to visit)
WaitsFor(c, d) ==
    \/ pc[c] \in {"new", "read", "defer"} /\ gamesMutex = d
    \/ pc[c] = "bc_lock" /\ loc[c].gid \in Registered /\ games[loc[c].gid].mu = d
    \/ pc[c] = "remove" /\ \E g \in loc[c].todo \cap Registered : games[g].mu = d

\* a task that holds a session lock is in the body of broadcastGameState,
\* holds no other session lock, and holds the registry lock only if it took
\* it before, as the caller "move" does; no tasks wait for each other in a
\* cycle
C26_HeldInOrder ==
    /\ \A c \in Conns :
          SessionLocks(c) # {} =>
             /\ pc[c] \in {"bc_state", "bc_write"}
             /\ SessionLocks(c) = {loc[c].gid}
             /\ gamesMutex = c <=> loc[c].caller = "move"
    /\ \A c, d \in Conns : c # d => ~(WaitsFor(c, d) /\ WaitsFor(d, c))
    /\ \A c, d, e \in Conns :
          (c # d /\ d # e /\ e # c) =>
             ~(WaitsFor(c, d) /\ WaitsFor(d, e) /\ WaitsFor(e, c))

\* the registry lock is taken by a task that holds no session lock
C26_RegistryFirst ==
    [][\A c \in Conns :
          (gamesMutex' = c /\ gamesMutex # c) => SessionLocks(c) = {}]_vars

\* C26: locks are taken in the order registry lock, session lock: no task
\* takes or waits for the registry lock while it holds a session lock, and no
\* two or more tasks block each other in a cycle.
C26_LockOrder == []C26_HeldInOrder /\ C26_RegistryFirst

\* the broadcast of a move holds the registry lock and waits for the session
\* lock, held by the broadcast of a join that is writing
C26_Witness ==
    \E c, d \in Conns :
        /\ c # d
        /\ gamesMutex = c
        /\ pc[c] = "bc_lock"
        /\ WaitsFor(c, d)
        /\ pc[d] = "bc_write"
        /\ loc[d].caller = "join"

\* C27: the state messages of a session reach each participant in the order
\* of the moves: a state message delivered to a connection never shows an
\* earlier position of the session than the one delivered to it before.
C27_InOrder ==
    [][\A k \in Conns, g \in GameIDs : seen'[k][g] >= seen[k][g]]_vars

\* a move was applied while the broadcast of a join was writing the starting
\* position: the creator has been sent that state, and the broadcast of the
\* move waits for the session lock
C27_Witness ==
    \E c, d \in Conns :
        /\ c # d
        /\ pc[d] = "bc_write"
        /\ loc[d].caller = "join"
        /\ loc[d].fen = Fen(NewGame)
        /\ loc[d].i = 2
        /\ sent = [to |-> c, msg |-> StateMsg("ongoing", Fen(NewGame)), ok |-> TRUE]
        /\ games[loc[d].gid].Game.ply = 1
        /\ pc[c] = "bc_lock"
        /\ loc[c].gid = loc[d].gid
        /\ seen[c][loc[d].gid] = 0

====
